---- MODULE Spec2Model ----
(***************************************************************************)
(* Star Battle solver (ImprovedStarBattleSolver) as a state machine.       *)
(* The constraint state of the solver object, the position inside          *)
(* propagate_constraints and the stack of branching backtrack frames are   *)
(* the variables; every mutating operation of the solver is one step.      *)
(***************************************************************************)
EXTENDS Integers, Sequences, FiniteSets, TLC

\* Bounds of the checked instances: board sizes 1..MaxN, star counts 1..MaxK.
MaxN == 5
MaxK == 2

\* Sentinel of unmarked cells.
UNLABELED == -1

VARIABLES
    n,                \* board size
    k,                \* stars per row / column / region
    regions,          \* region matrix: cell -> region id or UNLABELED
    solution,         \* set of star positions
    rows_needed,      \* row -> stars still needed
    cols_needed,      \* column -> stars still needed
    regs_needed,      \* labeled region id -> stars still needed
    forbidden_counts, \* cell -> forbidden count (absent key = 0)
    nodes_visited,    \* statistics: backtrack invocations
    propagations,     \* statistics: propagation passes
    pc,               \* control position
    stack,            \* backtrack frames that have branched: cell, snapshot, phase
    unit,             \* propagate_constraints: index of the unit under inspection
    pending,          \* propagate_constraints: valid_positions still to be forced
    changed,          \* propagate_constraints: the loop flag
    skipped,          \* propagate_constraints: some place_star_forced of this call returned False
    prop_entry,       \* propagate_constraints: propagations and len(solution) when the
                      \* current call was entered, len(solution) when its current pass began
    ret,              \* value returned by the call that just returned
    expired,          \* a backtrack call has observed time.time() - start_time > timeout
    result,           \* outcome of ImprovedStarBattleSolver.solve
    appMsg,           \* error dialog shown by StarBattleApp.solve, if any
    neighbors,        \* cell -> its 8-direction neighbours on the board
    region_cells,     \* labeled region id -> its cells
    region_order      \* keys of the region_cells dict in insertion order

vars == <<n, k, regions, solution, rows_needed, cols_needed, regs_needed,
          forbidden_counts, nodes_visited, propagations, pc, stack, unit,
          pending, changed, skipped, prop_entry, ret, expired, result, appMsg,
          neighbors, region_cells, region_order>>

instanceVars == <<n, k, regions, neighbors, region_cells, region_order>>
stateVars == <<solution, rows_needed, cols_needed, regs_needed, forbidden_counts>>
propVars == <<unit, pending, changed, skipped, prop_entry>>

----------------------------------------------------------------------------
(* Boards *)

CellsOf(m) == (0 .. m - 1) \X (0 .. m - 1)

Cells == CellsOf(n)

\* A board without any marked cell.
UnlabeledMap(m) == [cell \in CellsOf(m) |-> UNLABELED]

\* A board tiled by h x w blocks, numbered row-major (h = w = m: one region;
\* h = 1, w = m: one region per row; 2 x 2 on a 4 x 4 board: the quadrants).
BlockMap(m, h, w) ==
    [cell \in CellsOf(m) |-> (cell[1] \div h) * ((m + w - 1) \div w) + (cell[2] \div w)]

\* A board with one horizontal strip region 0, the first len cells of row r,
\* on a background bg (UNLABELED or region 1).
HStripMap(m, r, len, bg) ==
    [cell \in CellsOf(m) |-> IF cell[1] = r /\ cell[2] < len THEN 0 ELSE bg]

\* The same with a vertical strip, the first len cells of column c.
VStripMap(m, c, len, bg) ==
    [cell \in CellsOf(m) |-> IF cell[2] = c /\ cell[1] < len THEN 0 ELSE bg]

\* The boards of size m that are checked.
RegionMaps(m) ==
    {UnlabeledMap(m)}
    \cup {BlockMap(m, h, w) : h \in 1 .. m, w \in 1 .. m}
    \cup {HStripMap(m, r, len, bg) : r \in 0 .. m - 1, len \in 1 .. m, bg \in {UNLABELED, 1}}
    \cup {VStripMap(m, c, len, bg) : c \in 0 .. m - 1, len \in 1 .. m, bg \in {UNLABELED, 1}}

----------------------------------------------------------------------------
(* Precomputed structure of the solver object *)

\* 8-direction neighbours inside the board.
NeighborsOf(m, cell) ==
    {nb \in {<<cell[1] + d[1], cell[2] + d[2]>> : d \in {-1, 0, 1} \X {-1, 0, 1}} :
        /\ nb # cell
        /\ nb[1] >= 0 /\ nb[1] < m
        /\ nb[2] >= 0 /\ nb[2] < m}

\* Cells grouped by region, unlabeled cells skipped.
RegionCellsOf(m, map) ==
    [rid \in {map[cell] : cell \in CellsOf(m)} \ {UNLABELED} |->
        {cell \in CellsOf(m) : map[cell] = rid}]

\* Scan order of the two nested range(n) loops.
CellAtOf(m, i) == <<i \div m, i % m>>

CellAt(i) == CellAtOf(n, i)

RECURSIVE CellSeqFrom(_, _)
CellSeqFrom(S, i) ==
    IF i >= n * n THEN <<>>
    ELSE (IF CellAt(i) \in S THEN <<CellAt(i)>> ELSE <<>>) \o CellSeqFrom(S, i + 1)

\* The cells of S as the list the scan builds.
CellSeq(S) == CellSeqFrom(S, 0)

RECURSIVE RegionSeqFrom(_, _, _, _)
RegionSeqFrom(m, map, i, seen) ==
    IF i >= m * m THEN <<>>
    ELSE LET rid == map[CellAtOf(m, i)]
         IN IF rid = UNLABELED \/ rid \in seen
            THEN RegionSeqFrom(m, map, i + 1, seen)
            ELSE <<rid>> \o RegionSeqFrom(m, map, i + 1, seen \cup {rid})

\* Iteration order of the region_cells dict: order of first insertion.
RegionOrderOf(m, map) == RegionSeqFrom(m, map, 0, {})

RegionIds == DOMAIN region_cells

----------------------------------------------------------------------------
(* Initial state: the solver object after __init__ *)

Init ==
    /\ n \in 1 .. MaxN
    /\ k \in 1 .. MaxK
    /\ regions \in RegionMaps(n)
    /\ neighbors = [cell \in Cells |-> NeighborsOf(n, cell)]
    /\ region_cells = RegionCellsOf(n, regions)
    /\ region_order = RegionOrderOf(n, regions)
    /\ solution = {}
    /\ rows_needed = [r \in 0 .. n - 1 |-> k]
    /\ cols_needed = [c \in 0 .. n - 1 |-> k]
    /\ regs_needed = [rid \in RegionIds |-> k]
    /\ forbidden_counts = [cell \in Cells |-> 0]
    /\ nodes_visited = 0
    /\ propagations = 0
    /\ pc = "idle"
    /\ stack = <<>>
    /\ unit = 0
    /\ pending = <<>>
    /\ changed = FALSE
    /\ skipped = FALSE
    /\ prop_entry = [propagations |-> 0, stars |-> 0, pass_stars |-> 0]
    /\ ret = FALSE
    /\ expired = FALSE
    /\ result = "running"
    /\ appMsg = "none"

----------------------------------------------------------------------------
(* Queries on the constraint state *)

\* Some neighbour of the cell holds a star.
AdjacentStar(cell) == \E nb \in neighbors[cell] : nb \in solution

\* Faulty variant: availability judged by occupancy and quotas alone.
can_place_star_quotas_only(cell) ==
    /\ cell \notin solution
    /\ ~(rows_needed[cell[1]] <= 0 \/ cols_needed[cell[2]] <= 0)
    /\ ~(regions[cell] # UNLABELED /\ regs_needed[regions[cell]] <= 0)

\* Faulty variant: the forbidden count is not consulted.
can_place_star_ignoring_forbidden(cell) ==
    /\ cell \notin solution
    /\ ~(rows_needed[cell[1]] <= 0 \/ cols_needed[cell[2]] <= 0)
    /\ ~(regions[cell] # UNLABELED /\ regs_needed[regions[cell]] <= 0)
    /\ ~AdjacentStar(cell)

\* Faulty variant: the row and column quota tests off by one.
can_place_star_quota_off_by_one(cell) ==
    /\ cell \notin solution
    /\ ~(forbidden_counts[cell] > 0)
    /\ ~(rows_needed[cell[1]] <= 1 \/ cols_needed[cell[2]] <= 1)
    /\ ~(regions[cell] # UNLABELED /\ regs_needed[regions[cell]] <= 0)
    /\ ~AdjacentStar(cell)

can_place_star(cell) ==
    /\ cell \notin solution
    /\ ~(forbidden_counts[cell] > 0)
    /\ ~(rows_needed[cell[1]] <= 0 \/ cols_needed[cell[2]] <= 0)
    /\ ~(regions[cell] # UNLABELED /\ regs_needed[regions[cell]] <= 0)
    /\ ~AdjacentStar(cell)

\* Faulty variant: the region loop is left out.
NUnits_without_regions == 2 * n

\* The units in the order one propagation pass visits them: rows, columns,
\* then the regions in region_cells order.
NUnits == 2 * n + Len(region_order)

UnitCells(u) ==
    IF u < n THEN {<<u, c>> : c \in 0 .. n - 1}
    ELSE IF u < 2 * n THEN {<<r, u - n>> : r \in 0 .. n - 1}
    ELSE region_cells[region_order[u - 2 * n + 1]]

UnitNeeded(u) ==
    IF u < n THEN rows_needed[u]
    ELSE IF u < 2 * n THEN cols_needed[u - n]
    ELSE regs_needed[region_order[u - 2 * n + 1]]

Available(u) == {cell \in UnitCells(u) : can_place_star(cell)}

valid_positions(u) == CellSeq(Available(u))

\* Faulty variant: any() in place of all() over the rows and the columns.
is_complete_any ==
    /\ \E r \in 0 .. n - 1 : rows_needed[r] = 0
    /\ \E c \in 0 .. n - 1 : cols_needed[c] = 0
    /\ \A rid \in RegionIds : regs_needed[rid] = 0

is_complete ==
    /\ \A r \in 0 .. n - 1 : rows_needed[r] = 0
    /\ \A c \in 0 .. n - 1 : cols_needed[c] = 0
    /\ \A rid \in RegionIds : regs_needed[rid] = 0

\* Faulty variant: <= in place of <.
is_impossible_off_by_one ==
    \E u \in 0 .. 2 * n + Len(region_order) - 1 :
        Cardinality({cell \in UnitCells(u) : can_place_star(cell)}) <= UnitNeeded(u)

is_impossible ==
    \E u \in 0 .. NUnits - 1 : Cardinality(Available(u)) < UnitNeeded(u)

\* Faulty variant: the test of the neighbour scan inverted.
validate_no_adjacent_inverted == \A cell \in solution : AdjacentStar(cell)

validate_no_adjacent == \A cell \in solution : ~AdjacentStar(cell)

NoCell == <<>>

\* The scan of select_next_cell from cell index i on, with the best cell so far.
RECURSIVE SelectFrom(_, _, _, _, _)
SelectFrom(i, avail, best_cell, min_choices, max_constraints) ==
    IF i >= n * n THEN best_cell
    ELSE LET cell == CellAt(i)
             choices ==
                 Cardinality({x \in avail : x[1] = cell[1]})
                 + Cardinality({x \in avail : x[2] = cell[2]})
                 + (IF regions[cell] # UNLABELED
                    THEN Cardinality({x \in avail : regions[x] = regions[cell]})
                    ELSE 0)
             constraints == Cardinality(neighbors[cell] \cap avail)
         IN IF cell \in avail
               /\ (\/ best_cell = NoCell
                   \/ choices < min_choices
                   \/ (choices = min_choices /\ constraints > max_constraints))
            THEN SelectFrom(i + 1, avail, cell, choices, constraints)
            ELSE SelectFrom(i + 1, avail, best_cell, min_choices, max_constraints)

\* Faulty variant: the first available cell of the scan, whatever its choices.
select_next_cell_first ==
    LET avail == CellSeq({cell \in Cells : can_place_star(cell)})
    IN IF avail = <<>> THEN NoCell ELSE Head(avail)

select_next_cell ==
    SelectFrom(0, {cell \in Cells : can_place_star(cell)}, NoCell, 0, -1)

Snapshot ==
    [rows_needed |-> rows_needed, cols_needed |-> cols_needed,
     regs_needed |-> regs_needed, forbidden_counts |-> forbidden_counts,
     solution |-> solution]

----------------------------------------------------------------------------
(* Mutations of the constraint state *)

\* The quota and forbidden-count updates shared by both placements.
RowsAfterStar(cell) == [rows_needed EXCEPT ![cell[1]] = @ - 1]

ColsAfterStar(cell) == [cols_needed EXCEPT ![cell[2]] = @ - 1]

\* Faulty variant: the region quota is not decremented.
RegsAfterStar_forgotten(cell) == regs_needed

RegsAfterStar(cell) ==
    IF regions[cell] # UNLABELED
    THEN [regs_needed EXCEPT ![regions[cell]] = @ - 1]
    ELSE regs_needed

\* Faulty variant: the neighbours' counts are not updated.
ForbiddenAfterStar_forgotten(cell) == forbidden_counts

\* Faulty variant: the counter used as a flag, set instead of incremented.
ForbiddenAfterStar_flag(cell) ==
    [x \in Cells |-> IF x \in neighbors[cell] THEN 1 ELSE forbidden_counts[x]]

ForbiddenAfterStar(cell) ==
    [x \in Cells |-> IF x \in neighbors[cell]
                     THEN forbidden_counts[x] + 1
                     ELSE forbidden_counts[x]]

AddStar(cell) ==
    /\ solution' = solution \cup {cell}
    /\ rows_needed' = RowsAfterStar(cell)
    /\ cols_needed' = ColsAfterStar(cell)
    /\ regs_needed' = RegsAfterStar(cell)
    /\ forbidden_counts' = ForbiddenAfterStar(cell)

\* Faulty variant: forced placement without the adjacency check.
ForcedSkips_never(cell) == FALSE

\* place_star_forced returns False and changes nothing in this case.
ForcedSkips(cell) == AdjacentStar(cell)

\* place_star raises RuntimeError in this case.
PlaceRaises(cell) == AdjacentStar(cell)

\* Faulty variant: the forbidden counts are not restored.
RestoredState_without_forbidden(snapshot) ==
    [rows_needed |-> snapshot.rows_needed, cols_needed |-> snapshot.cols_needed,
     regs_needed |-> snapshot.regs_needed,
     forbidden_counts |-> forbidden_counts,
     solution |-> snapshot.solution]

\* The fields _restore_from_snapshot assigns.
RestoredState(snapshot) ==
    [rows_needed |-> snapshot.rows_needed, cols_needed |-> snapshot.cols_needed,
     regs_needed |-> snapshot.regs_needed,
     forbidden_counts |-> snapshot.forbidden_counts,
     solution |-> snapshot.solution]

restore_from_snapshot(snapshot) ==
    LET s == RestoredState(snapshot)
    IN /\ rows_needed' = s.rows_needed
       /\ cols_needed' = s.cols_needed
       /\ regs_needed' = s.regs_needed
       /\ forbidden_counts' = s.forbidden_counts
       /\ solution' = s.solution

\* Faulty variant: Branch B recurses without marking the cell.
ForbidMarked_forgotten(cell) == forbidden_counts

\* forbidden_counts[(r, c)] += 1 of Branch B.
ForbidMarked(cell) == [forbidden_counts EXCEPT ![cell] = @ + 1]

\* forbidden_counts[(r, c)] -= 1 after Branch B, the key dropped at 0.
ForbidUnmarked(cell) == [forbidden_counts EXCEPT ![cell] = @ - 1]

----------------------------------------------------------------------------
(* propagate_constraints *)

\* Entry of propagate_constraints up to the first unit of the first pass.
EnterPropagate ==
    /\ changed' = FALSE
    /\ skipped' = FALSE
    /\ prop_entry' = [propagations |-> propagations,
                      stars |-> Cardinality(solution),
                      pass_stars |-> Cardinality(solution)]
    /\ propagations' = propagations + 1
    /\ unit' = 0
    /\ pending' = <<>>
    /\ pc' = "prop_unit"

\* Faulty variant: the loop flag is not cleared at the start of the pass.
NextPass_flag_kept ==
    /\ changed' = changed
    /\ propagations' = propagations + 1
    /\ unit' = 0
    /\ pending' = <<>>
    /\ prop_entry' = [prop_entry EXCEPT !.pass_stars = Cardinality(solution)]
    /\ UNCHANGED <<pc, skipped>>

\* The while loop runs its body again.
NextPass ==
    /\ changed' = FALSE
    /\ propagations' = propagations + 1
    /\ unit' = 0
    /\ pending' = <<>>
    /\ prop_entry' = [prop_entry EXCEPT !.pass_stars = Cardinality(solution)]
    /\ UNCHANGED <<pc, skipped>>

\* Faulty variant: the test for len(valid_positions) < needed is missed.
UnitActs_without_contradiction(u) ==
    UnitNeeded(u) > 0 /\ Cardinality(Available(u)) = UnitNeeded(u)

\* Faulty variant: the test for len(valid_positions) == needed is missed.
UnitActs_without_deduction(u) ==
    UnitNeeded(u) > 0 /\ Cardinality(Available(u)) < UnitNeeded(u)

\* A unit on which the pass does something: it needs stars and has no more
\* available cells than it needs.
UnitActs(u) == UnitNeeded(u) > 0 /\ Cardinality(Available(u)) <= UnitNeeded(u)

\* The first unit from u on that acts, NUnits if the pass ends first.
RECURSIVE NextActive(_)
NextActive(u) ==
    IF u >= NUnits THEN NUnits
    ELSE IF UnitActs(u) THEN u
    ELSE NextActive(u + 1)

\* len(valid_positions) == needed: the cells are queued for forced placement.
PropDeduce ==
    /\ pc = "prop_unit"
    /\ \E u \in {NextActive(unit)} :
          /\ u < NUnits
          /\ Cardinality(Available(u)) = UnitNeeded(u)
          /\ unit' = u
          /\ pending' = valid_positions(u)
    /\ pc' = "prop_force"
    /\ UNCHANGED <<instanceVars, stateVars, nodes_visited, propagations, stack,
                   changed, skipped, prop_entry, ret, expired, result, appMsg>>

\* len(valid_positions) < needed: return False.
PropContradiction ==
    /\ pc = "prop_unit"
    /\ \E u \in {NextActive(unit)} :
          /\ u < NUnits
          /\ Cardinality(Available(u)) < UnitNeeded(u)
          /\ unit' = u
    /\ pc' = "prop_done"
    /\ ret' = FALSE
    /\ UNCHANGED <<instanceVars, stateVars, nodes_visited, propagations, stack,
                   pending, changed, skipped, prop_entry, expired, result, appMsg>>

\* One place_star_forced call of the loop over valid_positions.
ForceStar ==
    /\ pc = "prop_force"
    /\ LET cell == Head(pending)
       IN IF ForcedSkips(cell)
          THEN skipped' = TRUE /\ UNCHANGED <<stateVars, changed>>
          ELSE AddStar(cell) /\ changed' = TRUE /\ UNCHANGED skipped
    /\ pending' = Tail(pending)
    /\ IF Len(pending) = 1
       THEN pc' = "prop_unit" /\ unit' = unit + 1
       ELSE UNCHANGED <<pc, unit>>
    /\ UNCHANGED <<instanceVars, nodes_visited, propagations, stack, prop_entry,
                   ret, expired, result, appMsg>>

\* End of a pass that changed something: the while loop runs again.
PropNextPass ==
    /\ pc = "prop_unit"
    /\ NextActive(unit) = NUnits
    /\ changed
    /\ NextPass
    /\ UNCHANGED <<instanceVars, stateVars, nodes_visited, stack, ret, expired,
                   result, appMsg>>

\* End of a pass that changed nothing: return True.
PropFixpoint ==
    /\ pc = "prop_unit"
    /\ NextActive(unit) = NUnits
    /\ ~changed
    /\ pc' = "prop_done"
    /\ ret' = TRUE
    /\ unit' = NUnits
    /\ UNCHANGED <<instanceVars, stateVars, nodes_visited, propagations, stack,
                   pending, changed, skipped, prop_entry, expired, result, appMsg>>

----------------------------------------------------------------------------
(* backtrack *)

Top == stack[Len(stack)]

\* Faulty variant: the returning frame stays on the stack.
Pop_kept == stack

\* The stack without its top frame: the frame has returned.
Pop == SubSeq(stack, 1, Len(stack) - 1)

\* The deadline check finds the time budget used up: return False.
BacktrackTimeout ==
    /\ pc = "bt_enter"
    /\ nodes_visited' = nodes_visited + 1
    /\ expired' = TRUE
    /\ pc' = "bt_ret"
    /\ ret' = FALSE
    /\ UNCHANGED <<instanceVars, stateVars, propagations, stack, propVars,
                   result, appMsg>>

\* The deadline check passes (time is monotonic: not after it failed once)
\* and the call starts its propagation.
BacktrackPropagate ==
    /\ pc = "bt_enter"
    /\ ~expired
    /\ nodes_visited' = nodes_visited + 1
    /\ EnterPropagate
    /\ UNCHANGED <<instanceVars, stateVars, stack, ret, expired, result, appMsg>>

\* After propagation: the call returns True on a complete state.
BacktrackComplete ==
    /\ pc = "prop_done"
    /\ nodes_visited > 0
    /\ ret
    /\ is_complete
    /\ pc' = "bt_ret"
    /\ ret' = TRUE
    /\ UNCHANGED <<instanceVars, stateVars, nodes_visited, propagations, stack,
                   propVars, expired, result, appMsg>>

\* After propagation: contradiction, impossible state or no cell to branch on.
BacktrackDeadEnd ==
    /\ pc = "prop_done"
    /\ nodes_visited > 0
    /\ \/ ~ret
       \/ ~is_complete /\ (is_impossible \/ select_next_cell = NoCell)
    /\ pc' = "bt_ret"
    /\ ret' = FALSE
    /\ UNCHANGED <<instanceVars, stateVars, nodes_visited, propagations, stack,
                   propVars, expired, result, appMsg>>

\* After propagation: a branch cell is selected and the snapshot is taken.
BacktrackBranch ==
    /\ pc = "prop_done"
    /\ nodes_visited > 0
    /\ ret
    /\ ~is_complete
    /\ ~is_impossible
    /\ \E cell \in {select_next_cell} :
          /\ cell # NoCell
          /\ stack' = Append(stack, [cell |-> cell, snapshot |-> Snapshot,
                                     phase |-> "A"])
    /\ pc' = "place"
    /\ UNCHANGED <<instanceVars, stateVars, nodes_visited, propagations,
                   propVars, ret, expired, result, appMsg>>

\* Branch A: place_star on the selected cell, then the recursive call.
PlaceStar ==
    /\ pc = "place"
    /\ IF PlaceRaises(Top.cell)
       THEN /\ pc' = "done"
            /\ result' = "RuntimeError"
            /\ UNCHANGED stateVars
       ELSE /\ AddStar(Top.cell)
            /\ pc' = "bt_enter"
            /\ UNCHANGED result
    /\ UNCHANGED <<instanceVars, nodes_visited, propagations, stack, propVars,
                   ret, expired, appMsg>>

\* A recursive call returned True: the frame returns True without restoring.
BranchSucceeded ==
    /\ pc = "bt_ret"
    /\ ret
    /\ stack # <<>>
    /\ stack' = Pop
    /\ UNCHANGED <<instanceVars, stateVars, nodes_visited, propagations, pc,
                   propVars, ret, expired, result, appMsg>>

\* Branch A returned False: restore the snapshot.
RestoreAfterA ==
    /\ pc = "bt_ret"
    /\ ~ret
    /\ stack # <<>>
    /\ Top.phase = "A"
    /\ restore_from_snapshot(Top.snapshot)
    /\ pc' = "mark"
    /\ UNCHANGED <<instanceVars, nodes_visited, propagations, stack, propVars,
                   ret, expired, result, appMsg>>

\* Branch B: mark the cell as forbidden, then the recursive call.
ForbidMark ==
    /\ pc = "mark"
    /\ forbidden_counts' = ForbidMarked(Top.cell)
    /\ stack' = [stack EXCEPT ![Len(stack)].phase = "B"]
    /\ pc' = "bt_enter"
    /\ UNCHANGED <<instanceVars, solution, rows_needed, cols_needed, regs_needed,
                   nodes_visited, propagations, propVars, ret, expired, result,
                   appMsg>>

\* Branch B returned False: take the forbid-mark back.
ForbidUnmark ==
    /\ pc = "bt_ret"
    /\ ~ret
    /\ stack # <<>>
    /\ Top.phase = "B"
    /\ forbidden_counts' = ForbidUnmarked(Top.cell)
    /\ stack' = [stack EXCEPT ![Len(stack)].phase = "undo"]
    /\ pc' = "restore_b"
    /\ UNCHANGED <<instanceVars, solution, rows_needed, cols_needed, regs_needed,
                   nodes_visited, propagations, propVars, ret, expired, result,
                   appMsg>>

\* ... restore the snapshot again and return False.
RestoreAfterB ==
    /\ pc = "restore_b"
    /\ restore_from_snapshot(Top.snapshot)
    /\ stack' = Pop
    /\ pc' = "bt_ret"
    /\ ret' = FALSE
    /\ UNCHANGED <<instanceVars, nodes_visited, propagations, propVars, expired,
                   result, appMsg>>

----------------------------------------------------------------------------
(* solve *)

\* The value solve returns when the search reports success.
ValidatedResult == IF validate_no_adjacent THEN "solution" ELSE "None"

\* ImprovedStarBattleSolver.solve called by some caller: initial propagation.
SolverSolve ==
    /\ pc = "idle"
    /\ EnterPropagate
    /\ UNCHANGED <<instanceVars, stateVars, nodes_visited, stack, ret, expired,
                   result, appMsg>>

\* Initial propagation failed, or left an impossible state: return None.
SolveInfeasible ==
    /\ pc = "prop_done"
    /\ nodes_visited = 0
    /\ ~ret \/ (~is_complete /\ is_impossible)
    /\ pc' = "done"
    /\ result' = "None"
    /\ UNCHANGED <<instanceVars, stateVars, nodes_visited, propagations, stack,
                   propVars, ret, expired, appMsg>>

\* Initial propagation alone completed the board.
SolveByPropagation ==
    /\ pc = "prop_done"
    /\ nodes_visited = 0
    /\ ret
    /\ is_complete
    /\ pc' = "done"
    /\ result' = ValidatedResult
    /\ UNCHANGED <<instanceVars, stateVars, nodes_visited, propagations, stack,
                   propVars, ret, expired, appMsg>>

\* Start of the backtracking search.
SolveSearch ==
    /\ pc = "prop_done"
    /\ nodes_visited = 0
    /\ ret
    /\ ~is_complete
    /\ ~is_impossible
    /\ pc' = "bt_enter"
    /\ UNCHANGED <<instanceVars, stateVars, nodes_visited, propagations, stack,
                   propVars, ret, expired, result, appMsg>>

\* Faulty variant: the placement is returned whatever the search reported.
SearchOutcome_ignoring_failure(found) == ValidatedResult

\* What solve returns after backtrack returned found.
SearchOutcome(found) == IF found THEN ValidatedResult ELSE "None"

\* The outermost backtrack call returned.
SolveAfterSearch ==
    /\ pc = "bt_ret"
    /\ stack = <<>>
    /\ pc' = "done"
    /\ result' = SearchOutcome(ret)
    /\ UNCHANGED <<instanceVars, stateVars, nodes_visited, propagations, stack,
                   propVars, ret, expired, appMsg>>

----------------------------------------------------------------------------
(* StarBattleApp.solve *)

AllUnmarked == \A cell \in Cells : regions[cell] = UNLABELED

\* region_sizes of the board, and the size test against k.
RegionSize(rid) == Cardinality(region_cells[rid])

\* Faulty variant: <= in place of <.
AppRegionTooSmall_off_by_one == \E rid \in RegionIds : RegionSize(rid) <= k

\* Some region fails the size test.
AppRegionTooSmall == \E rid \in RegionIds : RegionSize(rid) < k

\* The checks before the solver is created end with an error dialog.
AppSolveReject ==
    /\ pc = "idle"
    /\ AllUnmarked \/ AppRegionTooSmall
    /\ appMsg' = IF AllUnmarked THEN "mark_a_region" ELSE "region_too_small"
    /\ pc' = "app_rejected"
    /\ UNCHANGED <<instanceVars, stateVars, nodes_visited, propagations, stack,
                   propVars, ret, expired, result>>

\* The checks pass: the solver is created and its solve is called.
AppSolveAccept ==
    /\ pc = "idle"
    /\ ~AllUnmarked
    /\ ~AppRegionTooSmall
    /\ EnterPropagate
    /\ UNCHANGED <<instanceVars, stateVars, nodes_visited, stack, ret, expired,
                   result, appMsg>>

----------------------------------------------------------------------------

Next ==
    \/ SolverSolve
    \/ AppSolveReject
    \/ AppSolveAccept
    \/ PropDeduce
    \/ PropContradiction
    \/ ForceStar
    \/ PropNextPass
    \/ PropFixpoint
    \/ SolveInfeasible
    \/ SolveByPropagation
    \/ SolveSearch
    \/ SolveAfterSearch
    \/ BacktrackTimeout
    \/ BacktrackPropagate
    \/ BacktrackComplete
    \/ BacktrackBranch
    \/ BacktrackDeadEnd
    \/ PlaceStar
    \/ BranchSucceeded
    \/ RestoreAfterA
    \/ ForbidMark
    \/ ForbidUnmark
    \/ RestoreAfterB

Spec == Init /\ [][Next]_vars

\* The solver is one sequential thread that keeps running until solve returns:
\* a step that can be taken is eventually taken.
LiveSpec == Spec /\ WF_vars(Next)

----------------------------------------------------------------------------
(* remove_star *)

\* The list place_star returns: the neighbours of the new star whose forbidden
\* count became 1, read in the state place_star leaves.
new_forbidden(cell) == {nb \in neighbors[cell] : forbidden_counts[nb] = 1}

\* remove_star(r, c, new_forbidden): the star and the three quota decrements
\* are taken back, and the count of each listed cell is decremented (the key
\* dropped at 0).
remove_star(cell, listed) ==
    /\ solution' = solution \ {cell}
    /\ rows_needed' = [rows_needed EXCEPT ![cell[1]] = @ + 1]
    /\ cols_needed' = [cols_needed EXCEPT ![cell[2]] = @ + 1]
    /\ regs_needed' = IF regions[cell] # UNLABELED
                      THEN [regs_needed EXCEPT ![regions[cell]] = @ + 1]
                      ELSE regs_needed
    /\ forbidden_counts' = [x \in Cells |-> IF x \in listed
                                            THEN forbidden_counts[x] - 1
                                            ELSE forbidden_counts[x]]

\* solve never calls remove_star. Here a caller takes the star of Branch A
\* back with it, right after the place_star of line 536 returned its list.
CallRemoveStar ==
    /\ pc = "bt_enter"
    /\ stack # <<>>
    /\ Top.phase = "A"
    /\ remove_star(Top.cell, new_forbidden(Top.cell))
    /\ pc' = "removed"
    /\ UNCHANGED <<instanceVars, nodes_visited, propagations, stack, propVars,
                   ret, expired, result, appMsg>>

UndoNext == Next \/ CallRemoveStar

\* The solver with a caller that may undo a placement by remove_star.
UndoSpec == Init /\ [][UndoNext]_vars

----------------------------------------------------------------------------
(* Properties *)

Abs(x) == IF x < 0 THEN 0 - x ELSE x

\* Chebyshev distance of two cells.
Chebyshev(a, b) ==
    IF Abs(a[1] - b[1]) >= Abs(a[2] - b[2]) THEN Abs(a[1] - b[1]) ELSE Abs(a[2] - b[2])

StarsInRow(S, r) == Cardinality({cell \in S : cell[1] = r})

StarsInCol(S, c) == Cardinality({cell \in S : cell[2] = c})

StarsInRegion(S, rid) == Cardinality({cell \in S : regions[cell] = rid})

LabeledRegions == {regions[cell] : cell \in Cells} \ {UNLABELED}

\* S is a valid placement of the instance.
ValidPlacement(S) ==
    /\ S \subseteq Cells
    /\ \A r \in 0 .. n - 1 : StarsInRow(S, r) = k
    /\ \A c \in 0 .. n - 1 : StarsInCol(S, c) = k
    /\ \A rid \in LabeledRegions : StarsInRegion(S, rid) = k
    /\ \A a \in S : \A b \in S : a # b => Chebyshev(a, b) >= 2

\* The ways to put k pairwise non-adjacent stars into one row.
RowChoices ==
    {cs \in SUBSET (0 .. n - 1) :
        /\ Cardinality(cs) = k
        /\ \A a \in cs : \A b \in cs : a # b => Abs(a - b) >= 2}

\* Valid placements, built row by row: S holds the stars of the rows above r.
RECURSIVE ExtendsToValid(_, _)
ExtendsToValid(S, r) ==
    IF r = n THEN ValidPlacement(S)
    ELSE \E cs \in RowChoices :
            LET T == S \cup {<<r, c>> : c \in cs}
            IN /\ \A a \in T : \A b \in T : a # b => Chebyshev(a, b) >= 2
               /\ \A c \in 0 .. n - 1 : StarsInCol(T, c) <= k
               /\ \A rid \in LabeledRegions : StarsInRegion(T, rid) <= k
               /\ ExtendsToValid(T, r + 1)

\* The instance has at least one valid placement.
Solvable == ExtendsToValid({}, 0)

\* Some labeled region has fewer than k cells.
InfeasibleByConstruction ==
    \E rid \in LabeledRegions : Cardinality({cell \in Cells : regions[cell] = rid}) < k

\* C1: whenever solve returns a placement, every row, every column and every
\* labeled region holds exactly k stars, the placement has n*k cells and no two
\* stars are king-adjacent.
C1_ReturnedPlacementValid ==
    (pc = "done" /\ result = "solution") =>
        /\ ValidPlacement(solution)
        /\ Cardinality(solution) = n * k

\* A placement returned after a search that branched, on a board with regions.
C1_Witness ==
    /\ pc = "done"
    /\ result = "solution"
    /\ nodes_visited > 1
    /\ LabeledRegions # {}

\* C2: the search is complete: if the instance has a valid placement and no
\* backtrack call observed the deadline as exceeded, solve returns a placement.
C2_SearchComplete ==
    (pc = "done" /\ ~expired /\ Solvable) => result = "solution"

\* A fully unlabeled board solved by a search that branched.
C2_Witness ==
    /\ pc = "done"
    /\ ~expired
    /\ result = "solution"
    /\ AllUnmarked
    /\ nodes_visited > 1

\* C3: when some labeled region has fewer than k cells no search is attempted:
\* backtrack is never invoked, no branch cell is selected, and the solve
\* operation ends negatively.
C3_NoSearchOnSmallRegion ==
    InfeasibleByConstruction =>
        /\ nodes_visited = 0
        /\ stack = <<>>
        /\ pc \in {"idle", "prop_unit", "prop_force", "prop_done", "done", "app_rejected"}
        /\ pc = "done" => result = "None"

\* solve has ended on an instance with a too small region, after forcing a star.
C3_Witness ==
    /\ InfeasibleByConstruction
    /\ pc = "done"
    /\ result = "None"
    /\ solution # {}

\* C4 as stated: the core solver's outcome for an instance with a too small
\* region differs from the "no solution" outcome (None) of a failed search.
C4_CoreRejectsDistinctly ==
    ~(pc = "done" /\ InfeasibleByConstruction /\ result = "None")

\* C4 amended: ImprovedStarBattleSolver.solve returns None for an instance with
\* a too small region, the value it also returns after a failed or timed-out
\* search; the distinct rejection is the "region too small" error of
\* StarBattleApp.solve, shown exactly for such boards, before any solver runs.
C4_RejectionIsInApp ==
    /\ (pc = "done" /\ InfeasibleByConstruction) => result = "None"
    /\ appMsg = "region_too_small" =>
          /\ InfeasibleByConstruction
          /\ pc = "app_rejected"
          /\ result = "running"
          /\ propagations = 0
    /\ (pc = "app_rejected" /\ InfeasibleByConstruction) => appMsg = "region_too_small"

\* The app has rejected a board with a too small region.
C4_Witness ==
    /\ pc = "app_rejected"
    /\ appMsg = "region_too_small"
    /\ InfeasibleByConstruction

\* C5: from the step in which a backtrack call observes the deadline as
\* exceeded, no propagation pass runs and no star is placed, every call returns
\* False, and solve returns None.
C5_TimeoutUnwinds ==
    [][expired' =>
          /\ propagations' = propagations
          /\ solution' \subseteq solution
          /\ pc' \in {"bt_ret", "mark", "bt_enter", "restore_b", "done"}
          /\ pc' = "bt_ret" => ~ret'
          /\ pc' = "done" => result' = "None"]_vars

\* solve has returned after a timeout observed below two branching frames.
C5_Witness ==
    /\ expired
    /\ pc = "done"
    /\ result = "None"
    /\ nodes_visited > 3

\* C6: the placed stars never contain two king-adjacent cells.
C6_NoAdjacentStars ==
    \A a \in solution : \A b \in solution : a # b => Chebyshev(a, b) >= 2

\* A forced placement was skipped while stars are placed.
C6_Witness ==
    /\ skipped
    /\ Cardinality(solution) >= 2

\* C7: quota plus placed stars is k for every row, column and labeled region.
C7_QuotaAccounting ==
    /\ \A r \in 0 .. n - 1 : rows_needed[r] + StarsInRow(solution, r) = k
    /\ \A c \in 0 .. n - 1 : cols_needed[c] + StarsInCol(solution, c) = k
    /\ \A rid \in LabeledRegions : regs_needed[rid] + StarsInRegion(solution, rid) = k

\* A snapshot holding stars has just been restored on a board with regions.
C7_Witness ==
    /\ pc = "mark"
    /\ ~expired
    /\ solution # {}
    /\ LabeledRegions # {}

\* C8 as stated: no quota is ever negative.
C8_QuotasNonNegative ==
    /\ \A r \in 0 .. n - 1 : rows_needed[r] >= 0
    /\ \A c \in 0 .. n - 1 : cols_needed[c] >= 0
    /\ \A rid \in LabeledRegions : regs_needed[rid] >= 0

\* Stars placed next to the cell.
StarNeighbours(cell) == Cardinality({nb \in solution : Chebyshev(nb, cell) = 1})

\* Forbid-marks of Branch B in effect on the cell.
ForbidMarks(cell) ==
    Cardinality({i \in 1 .. Len(stack) : stack[i].phase = "B" /\ stack[i].cell = cell})

\* C9 as stated: the forbidden count of every cell is the number of its
\* neighbours that hold a star.
C9_ForbiddenIsStarCount ==
    \A cell \in Cells : forbidden_counts[cell] = StarNeighbours(cell)

\* The search has reported success and the frames return True one by one,
\* without restoring and without taking their forbid-marks back.
SuccessReturning == ret /\ pc \in {"bt_ret", "done"}

\* C9 amended: the forbidden count of every cell is the number of its
\* neighbours that hold a star, plus one if the cell carries the forbid-mark
\* of a Branch B; the marked cells are those of the Branch B frames on the
\* call stack, and the marks of frames that returned True stay.
C9_ForbiddenIsStarsPlusMarks ==
    \A cell \in Cells :
        LET marks == forbidden_counts[cell] - StarNeighbours(cell)
        IN /\ marks \in {0, 1}
           /\ marks >= ForbidMarks(cell)
           /\ ~SuccessReturning => marks = ForbidMarks(cell)

\* Inside a Branch B, with a cell next to two stars.
C9_Witness ==
    /\ \E i \in 1 .. Len(stack) : stack[i].phase = "B"
    /\ \E cell \in Cells : StarNeighbours(cell) >= 2

\* What C10 asks of one step.
C10_Step ==
    /\ (pc = "prop_done" /\ pc' = "place") =>
          /\ Len(stack') = Len(stack) + 1
          /\ stack'[Len(stack')].snapshot = Snapshot
    /\ \A i \in 1 .. Len(stack') :
          i <= Len(stack) =>
              /\ stack'[i].snapshot = stack[i].snapshot
              /\ stack'[i].cell = stack[i].cell
    /\ (pc = "bt_ret" /\ pc' = "mark") => Snapshot' = Top.snapshot
    /\ (pc = "restore_b" /\ pc' = "bt_ret") => Snapshot' = Top.snapshot

\* C10: the snapshot of a branching frame is the state at the branch, it is
\* never altered while the frame lives, and each restore (after Branch A and
\* after Branch B) leaves every tracked field equal to it.
C10_SnapshotRoundTrip ==
    [][C10_Step]_vars

\* A nested frame has restored its snapshot after a Branch A whose subtree
\* placed stars.
C10_Witness ==
    /\ pc = "mark"
    /\ ~expired
    /\ Len(stack) >= 2
    /\ solution # {}

\* No two cells of S are king-adjacent.
NoAdjacentPair(S) == \A a \in S : \A b \in S : a # b => Chebyshev(a, b) >= 2

\* The search reported success to solve: the initial propagation returned True
\* on a complete state, or the outermost backtrack call returned True.
SuccessReported ==
    /\ ret
    /\ \/ nodes_visited > 0
       \/ /\ \A r \in 0 .. n - 1 : rows_needed[r] = 0
          /\ \A c \in 0 .. n - 1 : cols_needed[c] = 0
          /\ \A rid \in LabeledRegions : regs_needed[rid] = 0

\* C11: solve returns the placement exactly when success was reported (by the
\* initial propagation alone or by the search) and the placement it returns has
\* no adjacent pair, as validate_no_adjacent reports; on reported success with
\* an adjacent pair it returns None.
C11_ReturnValidated ==
    pc = "done" =>
        /\ result = "solution" <=> (SuccessReported /\ NoAdjacentPair(solution))
        /\ (SuccessReported /\ ~NoAdjacentPair(solution)) => result = "None"

\* solve has returned a placement of several stars found by the initial
\* propagation alone.
C11_Witness ==
    /\ pc = "done"
    /\ result = "solution"
    /\ nodes_visited = 0
    /\ Cardinality(solution) >= 2

\* solve has returned, or StarBattleApp.solve has ended with its error dialog.
Terminated == pc \in {"done", "app_rejected"}

\* C12: every run of solve terminates, the runs in which no backtrack call ever
\* observes the deadline included; on an instance without a valid placement a
\* run that never observed the deadline returns None.
C12_Terminates ==
    /\ <>Terminated
    /\ []((pc = "done" /\ ~expired /\ ~Solvable) => result = "None")

\* solve has returned None on an instance without a valid placement after a
\* search that branched and never observed the deadline.
C12_Witness ==
    /\ pc = "done"
    /\ ~expired
    /\ ~Solvable
    /\ result = "None"
    /\ nodes_visited > 3

\* C13 as stated: the number of nested branching frames never exceeds n*k.
C13_DepthWithinStars == Len(stack) <= n * k

\* The frames of the current path that are in their place branch.
PlaceFrames == {i \in 1 .. Len(stack) : stack[i].phase = "A"}

\* C13 amended: only the place branches of the current path are bounded by the
\* number of stars n*k; the forbid branches are bounded by the cells: the
\* frames of a path have pairwise distinct cells, so the number of nested
\* branching frames never exceeds n*n.
C13_DepthWithinCells ==
    /\ Cardinality(PlaceFrames) <= n * k
    /\ \A i \in 1 .. Len(stack) : \A j \in 1 .. Len(stack) :
          i # j => stack[i].cell # stack[j].cell
    /\ Len(stack) <= n * n

\* A path with more nested branching frames than stars, some of them in
\* their forbid branch.
C13_Witness ==
    /\ Len(stack) > n * k
    /\ \E i \in 1 .. Len(stack) : stack[i].phase = "B"

\* The placement S is compatible with the constraint state (placed stars sol,
\* forbidden counts fc): the placed stars belong to S and every cell of S not
\* yet placed has forbidden count 0.
CompatibleWith(S, sol, fc) ==
    /\ sol \subseteq S
    /\ \A cell \in S \ sol : fc[cell] = 0

\* The valid placements compatible with the current state that extend S, the
\* stars of the rows above r.
RECURSIVE CompatibleFrom(_, _)
CompatibleFrom(S, r) ==
    IF r = n
    THEN IF ValidPlacement(S) /\ CompatibleWith(S, solution, forbidden_counts)
         THEN {S} ELSE {}
    ELSE UNION {CompatibleFrom(S \cup {<<r, c>> : c \in cs}, r + 1) :
                   cs \in {xs \in RowChoices :
                              LET T == S \cup {<<r, c>> : c \in xs}
                              IN /\ \A c \in xs : \/ <<r, c>> \in solution
                                                  \/ forbidden_counts[<<r, c>>] = 0
                                 /\ \A cell \in solution : cell[1] = r => cell[2] \in xs
                                 /\ NoAdjacentPair(T)
                                 /\ \A c \in 0 .. n - 1 : StarsInCol(T, c) <= k}}

CompatiblePlacements == CompatibleFrom({}, 0)

InPropagate == pc \in {"prop_unit", "prop_force"}

\* What C14 asks of one step of propagate_constraints, for every valid
\* placement S compatible with the state before the step.
C14_Step ==
    InPropagate =>
        \A S \in CompatiblePlacements :
            /\ solution' \subseteq S
            /\ CompatibleWith(S, solution', forbidden_counts')
            /\ pc = "prop_force" => solution' # solution
            /\ pc' = "prop_done" => ret'

\* C14: propagation never discards a solution: a valid placement compatible
\* with the state stays compatible through every step of propagate_constraints,
\* every forced star belongs to it (and no forced placement is skipped), and
\* the call returns True.
C14_PropagationKeepsSolutions ==
    [][C14_Step]_vars

\* A forced placement inside the search, below a forbid branch, with a valid
\* placement compatible with the state.
C14_Witness ==
    /\ pc = "prop_force"
    /\ \E i \in 1 .. Len(stack) : stack[i].phase = "B"
    /\ CompatiblePlacements # {}

\* The cells of a row, a column or a labeled region that can take a star.
AvailableIn(U) == Cardinality({cell \in U : can_place_star(cell)})

RowCells(r) == {<<r, c>> : c \in 0 .. n - 1}

ColCells(c) == {<<r, c>> : r \in 0 .. n - 1}

RegionCellSet(rid) == {cell \in Cells : regions[cell] = rid}

\* Every unit that still needs stars has strictly more available cells than
\* it needs.
Fixpoint ==
    /\ \A r \in 0 .. n - 1 : rows_needed[r] > 0 => AvailableIn(RowCells(r)) > rows_needed[r]
    /\ \A c \in 0 .. n - 1 : cols_needed[c] > 0 => AvailableIn(ColCells(c)) > cols_needed[c]
    /\ \A rid \in LabeledRegions :
          regs_needed[rid] > 0 => AvailableIn(RegionCellSet(rid)) > regs_needed[rid]

\* Some unit that still needs stars has fewer available cells than it needs.
StarvedUnit ==
    \/ \E r \in 0 .. n - 1 : rows_needed[r] > 0 /\ AvailableIn(RowCells(r)) < rows_needed[r]
    \/ \E c \in 0 .. n - 1 : cols_needed[c] > 0 /\ AvailableIn(ColCells(c)) < cols_needed[c]
    \/ \E rid \in LabeledRegions :
          regs_needed[rid] > 0 /\ AvailableIn(RegionCellSet(rid)) < regs_needed[rid]

\* C15: when propagate_constraints has returned True the state is a fixpoint,
\* and when it has returned False some unit with quota > 0 has fewer
\* available cells than its quota.
C15_PropagatePostcondition ==
    pc = "prop_done" =>
        /\ ret => Fixpoint
        /\ ~ret => StarvedUnit

\* A call inside the search that forced stars has returned True with stars
\* still to place.
C15_Witness ==
    /\ pc = "prop_done"
    /\ ret
    /\ nodes_visited > 0
    /\ Cardinality(solution) > prop_entry.stars
    /\ \E r \in 0 .. n - 1 : rows_needed[r] > 0

\* Passes started, and stars placed, by the propagate_constraints call under
\* way or just returned.
PassesOfCall == propagations - prop_entry.propagations

StarsOfCall == Cardinality(solution) - prop_entry.stars

\* What C16 asks of every state of a propagate_constraints call.
C16_Passes ==
    (InPropagate \/ pc = "prop_done") =>
        /\ changed <=> Cardinality(solution) > prop_entry.pass_stars
        /\ PassesOfCall - 1 <= prop_entry.pass_stars - prop_entry.stars
        /\ PassesOfCall >= 1
        /\ PassesOfCall <= StarsOfCall + 1
        /\ PassesOfCall <= n * n + 1

\* C16: every propagate_constraints call returns; inside it the loop flag is
\* set exactly when the pass under way has placed a star, every earlier pass
\* of the call placed at least one star, and so the passes of the call are at
\* most one more than the stars it placed, hence at most one more than the
\* number of cells.
C16_PassesBounded ==
    /\ []C16_Passes
    /\ InPropagate ~> (pc = "prop_done")

\* A call inside the search is in its third pass.
C16_Witness ==
    /\ InPropagate
    /\ nodes_visited > 0
    /\ PassesOfCall >= 3

\* The cells that can take a star.
AvailableCells == {cell \in Cells : can_place_star(cell)}

\* The `choices` of a cell: available cells in its row, in its column and in
\* its region (0 for the region term if the cell is unlabeled).
ChoicesOf(cell) ==
    AvailableIn(RowCells(cell[1])) + AvailableIn(ColCells(cell[2]))
    + (IF regions[cell] = UNLABELED THEN 0 ELSE AvailableIn(RegionCellSet(regions[cell])))

\* The `constraints` of a cell: its available neighbours.
ConstraintsOf(cell) ==
    Cardinality({x \in AvailableCells : Chebyshev(x, cell) = 1})

\* What select_next_cell returns in the current state is None if no cell is
\* available, and otherwise an available cell of minimal choices and, among
\* those, of maximal constraints.
SelectsMostConstrained ==
    LET best == select_next_cell
        avail == AvailableCells
    IN IF avail = {}
       THEN best = NoCell
       ELSE /\ best \in avail
            /\ LET least == ChoicesOf(best)
                   most == ConstraintsOf(best)
               IN \A x \in avail :
                     LET choices == ChoicesOf(x)
                     IN /\ least <= choices
                        /\ choices = least => ConstraintsOf(x) <= most

\* C17: in every state in which a propagation has returned, the states in
\* which backtrack makes its selection among them, select_next_cell returns
\* None exactly when no cell is available, and otherwise an available cell
\* whose choices are minimal over the available cells and whose constraints are
\* maximal among the available cells with these choices.
C17_SelectMostConstrained ==
    pc = "prop_done" => SelectsMostConstrained

\* A branch is about to select among available cells that differ in choices,
\* and the selected cell is not the first available cell of the scan.
C17_Witness ==
    /\ pc = "prop_done"
    /\ ret
    /\ nodes_visited > 0
    /\ select_next_cell # NoCell
    /\ \E x \in AvailableCells : ChoicesOf(x) > ChoicesOf(select_next_cell)
    /\ select_next_cell # CellSeq(AvailableCells)[1]

\* The snapshot with the forbidden count of the cell one higher.
MarkedSnapshot(snapshot, cell) ==
    [snapshot EXCEPT !.forbidden_counts[cell] = @ + 1]

\* What C18 asks of one step: the forbid-mark is prepared only by the restore
\* that follows a Branch A returning False, and a frame enters its Branch B
\* only from there, from the snapshot with the cell's count one higher.
C18_Step ==
    /\ (pc' = "mark" /\ pc # "mark") =>
          /\ pc = "bt_ret"
          /\ ~ret
          /\ stack # <<>>
          /\ Top.phase = "A"
          /\ stack' = stack
          /\ Snapshot' = Top.snapshot
    /\ \A i \in 1 .. Len(stack') :
          (stack'[i].phase = "B" /\ (i > Len(stack) \/ stack[i].phase # "B")) =>
              /\ i = Len(stack)
              /\ Len(stack') = Len(stack)
              /\ stack[i].phase = "A"
              /\ pc = "mark"
              /\ pc' = "bt_enter"
              /\ Snapshot = stack[i].snapshot
              /\ Snapshot' = MarkedSnapshot(stack[i].snapshot, stack[i].cell)

\* While a frame is in its Branch B its cell holds no star and stays marked.
C18_MarkHolds ==
    \A i \in 1 .. Len(stack) :
        stack[i].phase = "B" =>
            /\ stack[i].cell \notin solution
            /\ forbidden_counts[stack[i].cell] >= 1

\* C18: Branch B of a frame starts only after its Branch A returned False and
\* the snapshot was restored, from the snapshot with the selected cell's
\* forbidden count one higher, and throughout Branch B the selected cell never
\* holds a star.
C18_ForbidBranch ==
    /\ [][C18_Step]_vars
    /\ []C18_MarkHolds

\* Deep inside a Branch B that has placed further stars, the marked cell has
\* no star neighbour and its row and column still need stars: only the
\* forbid-mark keeps the star off.
C18_Witness ==
    \E i \in 1 .. Len(stack) - 1 :
        /\ stack[i].phase = "B"
        /\ Cardinality(solution) > Cardinality(stack[i].snapshot.solution)
        /\ StarNeighbours(stack[i].cell) = 0
        /\ rows_needed[stack[i].cell[1]] > 0
        /\ cols_needed[stack[i].cell[2]] > 0

\* C19: the cell backtrack passes to place_star never has a placed star among
\* its neighbours, so place_star never raises and solve never ends by the
\* RuntimeError.
C19_PlaceNeverRaises ==
    /\ pc = "place" => (stack # <<>> /\ StarNeighbours(Top.cell) = 0)
    /\ result # "RuntimeError"

\* A nested frame is about to place its star while other stars are placed.
C19_Witness ==
    /\ pc = "place"
    /\ Len(stack) >= 2
    /\ Cardinality(solution) >= 2

\* C20: a propagate_constraints call in which place_star_forced returned False
\* never returns True, and it does return: a skipped forced placement always
\* ends in that same call returning False.
C20_SkipEndsInContradiction ==
    /\ []((pc = "prop_done" /\ skipped) => ~ret)
    /\ (InPropagate /\ skipped) ~> (pc = "prop_done" /\ skipped /\ ~ret)

\* A call inside the search has returned False after skipping a forced
\* placement.
C20_Witness ==
    /\ pc = "prop_done"
    /\ skipped
    /\ ~ret
    /\ nodes_visited > 0

\* The availability predicate without the neighbour scan: the cell is
\* unoccupied, its forbidden count is 0 and its row, column and region quotas
\* are > 0.
AvailableByCounts(cell) ==
    /\ cell \notin solution
    /\ forbidden_counts[cell] = 0
    /\ rows_needed[cell[1]] > 0
    /\ cols_needed[cell[2]] > 0
    /\ regions[cell] # UNLABELED => regs_needed[regions[cell]] > 0

\* C21: the forbidden count of every cell is at least the number of placed
\* stars adjacent to it, so a cell with forbidden count 0 has no star
\* neighbour and can_place_star agrees with the availability predicate that
\* has no neighbour scan.
C21_ForbiddenCoversStars ==
    \A cell \in Cells :
        /\ forbidden_counts[cell] >= StarNeighbours(cell)
        /\ forbidden_counts[cell] = 0 => StarNeighbours(cell) = 0
        /\ can_place_star(cell) <=> AvailableByCounts(cell)

\* A snapshot has just been restored, and an unoccupied cell whose row and
\* column still need stars lies next to a placed star.
C21_Witness ==
    /\ pc = "mark"
    /\ ~expired
    /\ \E cell \in Cells \ solution :
          /\ StarNeighbours(cell) >= 1
          /\ rows_needed[cell[1]] > 0
          /\ cols_needed[cell[2]] > 0

\* C22 as stated: remove_star called right after place_star, with the list
\* place_star returned, leaves the placement, the three quotas and the
\* forbidden count of every cell as they were before place_star (the snapshot
\* the frame took just before placing).
C22_RemoveUndoesPlace ==
    pc = "removed" => Snapshot = Top.snapshot

====
